---- MODULE Spec2Model ----
(***************************************************************************)
(* Model of kelthuzad (src/kelthuzad.go): a supervisor that spawns a       *)
(* command, watches a log file or the command's stdout for a failure       *)
(* pattern, and on a match sleeps, kills the process group and respawns.   *)
(*                                                                         *)
(* Threads of control:                                                     *)
(*   main    main() -> New() -> Monitor() -> monitorLog()/monitorStdout()  *)
(*   start   one goroutine per spawn(): cmd.Start(); cmd.Wait()            *)
(*   sig     the goroutine of main(): <-signalChan; kill(); os.Exit(0)     *)
(* The environment appends lines to the log, makes children write lines    *)
(* and exit, lets time pass and delivers interrupts.                       *)
(*                                                                         *)
(* k.cmd and cmd.Process are read by kill() without synchronisation while  *)
(* spawn() and cmd.Start() write them; every order of the read and the     *)
(* write is an interleaving of the steps below.                            *)
(***************************************************************************)
EXTENDS Integers, Sequences, FiniteSets, TLC

\* ---------------------------------------------------------------- bounds
MaxLines == 2        \* lines produced by the environment after start
MaxPre == 1          \* lines already in the log file before start
MaxDelay == 1        \* largest configured cooldown (seconds)
MaxInterrupts == 2   \* interrupts delivered by the environment
MaxSpin == 2         \* saturation of the end-of-stream retry counter

\* ---------------------------------------------------------------- values
Lines == {"info", "FATAL"}
Patterns == {"FATAL", "("}
Procs == 1..(MaxLines + 1)
Goroutines == {"main", "sig"}

\* regexp.MustCompile panics on a pattern that does not compile
Compiles(re) == re # "("

\* k.regex.MatchString(line)
MatchString(re, line) == re = "FATAL" /\ line = "FATAL"

Min(a, b) == IF a < b THEN a ELSE b

SeqsUpTo(S, n) == UNION {[1..m -> S] : m \in 0..n}

VARIABLES
    opt,        \* the parsed options (opts)
    pc,         \* position of main and of the signal goroutine
    exit,       \* [code, cause, by]; code = -1 while the supervisor runs
    cur,        \* k.cmd: index of the current handle, 0 = nil
    stdout,     \* k.stdout: handle whose pipe it is, 0 = nil
    proc,       \* per handle: none, created, failed, running, zombie, reaped
    signaled,   \* per handle: SIGTERMs delivered to its process group
    pipe,       \* per handle: lines written and not yet read
    scanSrc,    \* handle whose pipe the live bufio.Scanner reads
    sbuf,       \* lines buffered inside the live scanner
    spins,      \* consecutive end-of-stream results on the stream k.stdout
    file,       \* the log file, a sequence of lines
    tailPos,    \* lines of the file the tail has passed; -1 = not opened
    pgid,       \* per goroutine: the pgid local of its kill() call
    elapsed,    \* seconds slept in the current time.Sleep
    cycle,      \* events of the current check() call on a match
    out,        \* lines printed by check() in verbose mode
    nLines,     \* lines produced so far by the environment
    nInt,       \* interrupts delivered so far
    nMatch,     \* lines classified as a match so far
    kills,      \* per goroutine: syscall.Kill calls made
    raced,      \* the interrupt was received while main was in a respawn
    window,     \* length of the log at the last match and at the spawn after it
    lastSrc     \* handle whose stream gave the last classified line

vars == <<opt, pc, exit, cur, stdout, proc, signaled, pipe, scanSrc,
          sbuf, spins, file, tailPos, pgid, elapsed, cycle, out, nLines,
          nInt, nMatch, kills, raced, window, lastSrc>>

Running == exit.code = -1

Init ==
    /\ opt \in [LogPath : {"", "log"}, Regex : Patterns,
                Verbose : BOOLEAN, Delay : 0..MaxDelay]
    /\ pc = [main |-> "parse", sig |-> "none"]
    /\ exit = [code |-> -1, cause |-> "none", by |-> "none"]
    /\ cur = 0
    /\ stdout = 0
    /\ proc = [h \in Procs |-> "none"]
    /\ signaled = [h \in Procs |-> 0]
    /\ pipe = [h \in Procs |-> <<>>]
    /\ scanSrc = 0
    /\ sbuf = <<>>
    /\ spins = 0
    /\ file \in IF opt.LogPath = "" THEN {<<>>} ELSE SeqsUpTo({"FATAL"}, MaxPre)
    /\ tailPos = -1
    /\ pgid = [g \in Goroutines |-> 0]
    /\ elapsed = 0
    /\ cycle = <<>>
    /\ out = <<>>
    /\ nLines = 0
    /\ nInt = 0
    /\ nMatch = 0
    /\ kills = [g \in Goroutines |-> 0]
    /\ raced = FALSE
    /\ window = [from |-> 0, to |-> 0]
    /\ lastSrc = 0

\* ------------------------------------------------------------- helpers
\* main is inside check() on a match: cooldown, kill or spawn
InRespawn == pc.main \in {"sleep", "getpgid", "kill", "spawn"}

MainLoopPc == IF opt.LogPath = "" THEN "scan" ELSE "read"

Goto(g, where) == pc' = [pc EXCEPT ![g] = where]

Exit(code, cause, g) == exit' = [code |-> code, cause |-> cause, by |-> g]

\* cmd.StdoutPipe() is only called in stdout mode and may fail
PipeFails(pipeOk) == opt.LogPath = "" /\ ~pipeOk

\* spawn(): new Cmd, its stdout pipe into k.stdout, the start goroutine,
\* and the Cmd into k.cmd.  Sets cur, stdout, proc and exit.
spawn(pipeOk) ==
    IF PipeFails(pipeOk)
    THEN /\ Exit(1, "StdoutPipe", "main")
         /\ UNCHANGED <<cur, stdout, proc>>
    ELSE /\ cur' = cur + 1
         /\ proc' = [proc EXCEPT ![cur + 1] = "created"]
         /\ stdout' = IF opt.LogPath = "" THEN cur + 1 ELSE stdout
         /\ UNCHANGED exit

\* check() taking the respawn branch whatever the line is
check_Always(line, src) ==
    /\ lastSrc' = src
    /\ nMatch' = IF MatchString(opt.Regex, line) THEN nMatch + 1 ELSE nMatch
    /\ cycle' = <<"FAIL", "Waiting">>
    /\ elapsed' = 0
    /\ Goto("main", "sleep")
    /\ UNCHANGED out

\* check() printing every line that does not match, verbose or not
check_PrintAlways(line, src) ==
    /\ lastSrc' = src
    /\ nMatch' = IF MatchString(opt.Regex, line) THEN nMatch + 1 ELSE nMatch
    /\ IF MatchString(opt.Regex, line)
       THEN /\ cycle' = <<"FAIL", "Waiting">>
            /\ elapsed' = 0
            /\ Goto("main", "sleep")
            /\ UNCHANGED out
       ELSE /\ out' = Append(out, line)
            /\ UNCHANGED <<cycle, elapsed, pc>>

\* check(line): on a match the two notifications, then the sleep begins;
\* otherwise the line is printed in verbose mode.  Sets pc, nMatch, cycle,
\* elapsed, out and lastSrc; nMatch counts the lines the pattern matches.
check(line, src) ==
    /\ lastSrc' = src
    /\ nMatch' = IF MatchString(opt.Regex, line) THEN nMatch + 1 ELSE nMatch
    /\ IF MatchString(opt.Regex, line)
       THEN /\ cycle' = <<"FAIL", "Waiting">>
            /\ elapsed' = 0
            /\ Goto("main", "sleep")
            /\ UNCHANGED out
       ELSE /\ out' = IF opt.Verbose THEN Append(out, line) ELSE out
            /\ UNCHANGED <<cycle, elapsed, pc>>

\* ---------------------------------------------------------------- main
\* flags.Parse(opt); os.Exit(1) on error
Parse ==
    /\ Running /\ pc.main = "parse"
    /\ \E argsOk \in BOOLEAN :
          IF argsOk
          THEN Goto("main", "New") /\ UNCHANGED exit
          ELSE Exit(1, "flags", "main") /\ UNCHANGED pc
    /\ UNCHANGED <<opt, cur, stdout, proc, signaled, pipe, scanSrc,
                   sbuf, spins, file, tailPos, pgid, elapsed, cycle, out,
                   nLines, nInt, nMatch, kills, raced, window, lastSrc>>

\* New() spawning before it compiles the pattern
New_SpawnFirst ==
    /\ Running /\ pc.main = "New"
    /\ \E pipeOk \in BOOLEAN :
          IF PipeFails(pipeOk) \/ Compiles(opt.Regex)
          THEN /\ spawn(pipeOk)
               /\ IF PipeFails(pipeOk) THEN UNCHANGED pc
                                       ELSE Goto("main", "signal")
          ELSE /\ cur' = cur + 1
               /\ proc' = [proc EXCEPT ![cur + 1] = "created"]
               /\ stdout' = IF opt.LogPath = "" THEN cur + 1 ELSE stdout
               /\ Exit(2, "MustCompile", "main")
               /\ UNCHANGED pc
    /\ UNCHANGED <<opt, signaled, pipe, scanSrc, sbuf, spins, file,
                   tailPos, pgid, elapsed, cycle, out, nLines, nInt, nMatch,
                   kills, raced, window, lastSrc>>

\* New(opt): compile the pattern (panics if it does not compile), spawn
New ==
    /\ Running /\ pc.main = "New"
    /\ IF ~Compiles(opt.Regex)
       THEN /\ Exit(2, "MustCompile", "main")
            /\ UNCHANGED <<cur, stdout, proc, pc>>
       ELSE \E pipeOk \in BOOLEAN :
               /\ spawn(pipeOk)
               /\ IF PipeFails(pipeOk) THEN UNCHANGED pc
                                       ELSE Goto("main", "signal")
    /\ UNCHANGED <<opt, signaled, pipe, scanSrc, sbuf, spins, file,
                   tailPos, pgid, elapsed, cycle, out, nLines, nInt, nMatch,
                   kills, raced, window, lastSrc>>

\* signal.Notify(signalChan, os.Interrupt); go func() {...}()
Notify ==
    /\ Running /\ pc.main = "signal"
    /\ pc' = [main |-> "Monitor", sig |-> "init"]
    /\ UNCHANGED <<opt, exit, cur, stdout, proc, signaled, pipe,
                   scanSrc, sbuf, spins, file, tailPos, pgid, elapsed, cycle,
                   out, nLines, nInt, nMatch, kills, raced, window, lastSrc>>

\* Monitor() with a tail that starts at the beginning of the file
Monitor_FromStart ==
    /\ Running /\ pc.main = "Monitor"
    /\ IF opt.LogPath # ""
       THEN \E openOk \in BOOLEAN :
               IF openOk
               THEN /\ tailPos' = 0
                    /\ Goto("main", "read")
                    /\ UNCHANGED exit
               ELSE /\ Exit(1, "TailFile", "main")
                    /\ UNCHANGED <<tailPos, pc>>
       ELSE /\ Goto("main", "newScanner")
            /\ UNCHANGED <<tailPos, exit>>
    /\ UNCHANGED <<opt, cur, stdout, proc, signaled, pipe, scanSrc,
                   sbuf, spins, file, nLines, pgid, elapsed, cycle, out,
                   nInt, nMatch, kills, raced, window, lastSrc>>

\* Monitor(): in log mode tail.TailFile from the end of the file (fatal
\* if it fails), otherwise on to the scanner loop
Monitor ==
    /\ Running /\ pc.main = "Monitor"
    /\ IF opt.LogPath # ""
       THEN \E openOk \in BOOLEAN :
               IF openOk
               THEN /\ tailPos' = Len(file)
                    /\ Goto("main", "read")
                    /\ UNCHANGED exit
               ELSE /\ Exit(1, "TailFile", "main")
                    /\ UNCHANGED <<tailPos, pc>>
       ELSE /\ Goto("main", "newScanner")
            /\ UNCHANGED <<tailPos, exit>>
    /\ UNCHANGED <<opt, cur, stdout, proc, signaled, pipe, scanSrc,
                   sbuf, spins, file, nLines, pgid, elapsed, cycle, out,
                   nInt, nMatch, kills, raced, window, lastSrc>>

\* monitorLog(): one iteration of "for line := range t.Lines"
monitorLog ==
    /\ Running /\ pc.main = "read"
    /\ tailPos < Len(file)
    /\ tailPos' = tailPos + 1
    /\ check(file[tailPos + 1], 0)
    /\ window' = IF MatchString(opt.Regex, file[tailPos + 1])
                 THEN [from |-> Len(file), to |-> Len(file)]
                 ELSE window
    /\ UNCHANGED <<opt, exit, cur, stdout, proc, signaled, pipe,
                   scanSrc, sbuf, spins, file, pgid, nLines, nInt, kills,
                   raced>>

\* monitorStdout(): scanner := bufio.NewScanner(k.stdout)
NewScanner ==
    /\ Running /\ pc.main = "newScanner"
    /\ scanSrc' = stdout
    /\ sbuf' = <<>>
    /\ Goto("main", "scan")
    /\ UNCHANGED <<opt, exit, cur, stdout, proc, signaled, pipe,
                   spins, file, tailPos, pgid, elapsed, cycle, out, nLines,
                   nInt, nMatch, kills, raced, window, lastSrc>>

\* the stream of handle h has ended: the child is gone (end of file) or
\* cmd.Wait has closed the pipe
StreamEnded(h) == proc[h] \in {"zombie", "reaped"}

\* monitorStdout(): scanner.Scan() returns a line, which is checked
ScanLine ==
    /\ Running /\ pc.main = "scan"
    /\ \/ /\ sbuf # <<>>
          /\ sbuf' = Tail(sbuf)
          /\ check(Head(sbuf), scanSrc)
          /\ UNCHANGED pipe
       \/ /\ sbuf = <<>>
          /\ proc[scanSrc] # "reaped"
          /\ pipe[scanSrc] # <<>>
          /\ sbuf' = Tail(pipe[scanSrc])
          /\ pipe' = [pipe EXCEPT ![scanSrc] = <<>>]
          /\ check(Head(pipe[scanSrc]), scanSrc)
    /\ spins' = 0
    /\ UNCHANGED <<opt, exit, cur, stdout, proc, signaled, scanSrc,
                   file, tailPos, pgid, nLines, nInt, kills, raced, window>>

\* monitorStdout(): scanner.Scan() returns false, the outer loop goes round
ScanEnd ==
    /\ Running /\ pc.main = "scan"
    /\ sbuf = <<>>
    /\ StreamEnded(scanSrc)
    /\ proc[scanSrc] = "reaped" \/ pipe[scanSrc] = <<>>
    /\ spins' = IF scanSrc = stdout THEN Min(spins + 1, MaxSpin) ELSE 0
    /\ Goto("main", "newScanner")
    /\ UNCHANGED <<opt, exit, cur, stdout, proc, signaled, pipe,
                   scanSrc, sbuf, file, tailPos, pgid, elapsed, cycle, out,
                   nLines, nInt, nMatch, kills, raced, window, lastSrc>>

\* a sleep that returns at once
SleepDone_Immediate == TRUE

\* time.Sleep(time.Second * Delay) returns once the delay has passed
SleepDone == elapsed >= opt.Delay

\* check() without its k.kill(): from the sleep straight to k.spawn()
Sleep_NoKill ==
    /\ Running /\ pc.main = "sleep"
    /\ SleepDone
    /\ cycle' = Append(cycle, "elapsed")
    /\ Goto("main", "spawn")
    /\ UNCHANGED <<opt, exit, cur, stdout, proc, signaled, pipe,
                   scanSrc, sbuf, spins, file, tailPos, pgid, elapsed, out,
                   nLines, nInt, nMatch, kills, raced, window, lastSrc>>

Sleep ==
    /\ Running /\ pc.main = "sleep"
    /\ SleepDone
    /\ cycle' = Append(cycle, "elapsed")
    /\ Goto("main", "getpgid")
    /\ UNCHANGED <<opt, exit, cur, stdout, proc, signaled, pipe,
                   scanSrc, sbuf, spins, file, tailPos, pgid, elapsed, out,
                   nLines, nInt, nMatch, kills, raced, window, lastSrc>>

\* ---------------------------------------------------------------- kill()
\* first half: syscall.Getpgid(k.cmd.Process.Pid).  Process is nil until
\* cmd.Start has run (nil dereference); the lookup fails once the child
\* has been reaped (logger.Fatal).
Getpgid(g) ==
    /\ Running /\ pc[g] = "getpgid"
    /\ IF proc[cur] \in {"created", "failed"}
       THEN Exit(2, "nilProcess", g) /\ UNCHANGED <<pc, pgid>>
       ELSE IF proc[cur] = "reaped"
       THEN Exit(1, "Getpgid", g) /\ UNCHANGED <<pc, pgid>>
       ELSE /\ pgid' = [pgid EXCEPT ![g] = cur]
            /\ Goto(g, "kill")
            /\ UNCHANGED exit
    /\ UNCHANGED <<opt, cur, stdout, proc, signaled, pipe, scanSrc,
                   sbuf, spins, file, tailPos, elapsed, cycle, out, nLines,
                   nInt, nMatch, kills, raced, window, lastSrc>>

\* process ids: 0 stands for the supervisor itself, h for the child of
\* handle h (cmd.Process.Pid)
Pid(h) == h + 1

SupervisorPgid == Pid(0)

\* cmd.SysProcAttr = &syscall.SysProcAttr{Setpgid: true}
Setpgid == TRUE

\* the process group of the child of handle h
PgidOf(h) == IF Setpgid THEN Pid(h) ELSE SupervisorPgid

\* a kill addressed to the leader alone
KillArg_Leader(h) == PgidOf(h)

\* the first argument of syscall.Kill(-pgid, 15), pgid looked up for h
KillArg(h) == 0 - PgidOf(h)

\* whether a signal sent to arg reaches the child of handle k: a negative
\* arg addresses a group, a positive one a single process
Reaches(arg, k) ==
    \/ arg < 0 /\ PgidOf(k) = 0 - arg
    \/ arg > 0 /\ Pid(k) = arg

\* the children a SIGTERM sent for the pgid of handle h is delivered to
Delivered(h) ==
    {k \in Procs : proc[k] \in {"running", "zombie"} /\ Reaches(KillArg(h), k)}

\* where each caller of kill() goes on
AfterKill(g) == IF g = "main" THEN "spawn" ELSE "exit"

\* second half: syscall.Kill(-pgid, 15), its error ignored
Kill(g) ==
    /\ Running /\ pc[g] = "kill"
    /\ signaled' = [h \in Procs |->
                      IF h \in Delivered(pgid[g]) THEN signaled[h] + 1
                                                  ELSE signaled[h]]
    /\ kills' = [kills EXCEPT ![g] = @ + 1]
    /\ cycle' = IF g = "main" THEN Append(cycle, "terminate") ELSE cycle
    /\ Goto(g, AfterKill(g))
    /\ UNCHANGED <<opt, exit, cur, stdout, proc, pipe, scanSrc, sbuf,
                   spins, file, tailPos, pgid, elapsed, out, nLines, nInt,
                   nMatch, raced, window, lastSrc>>

\* check(): k.spawn() after k.kill(), then back to the line loop
Respawn ==
    /\ Running /\ pc.main = "spawn"
    /\ \E pipeOk \in BOOLEAN :
          /\ spawn(pipeOk)
          /\ IF PipeFails(pipeOk)
             THEN UNCHANGED <<pc, cycle, window>>
             ELSE /\ Goto("main", MainLoopPc)
                  /\ cycle' = Append(cycle, "spawn")
                  /\ window' = [window EXCEPT !.to = Len(file)]
    /\ UNCHANGED <<opt, signaled, pipe, scanSrc, sbuf, spins, file,
                   tailPos, pgid, elapsed, out, nLines, nInt, nMatch, kills,
                   raced, lastSrc>>

\* ------------------------------------------------- the start goroutine
\* a start goroutine that only reports a failed launch and goes on
Start_NoFatal(h) ==
    /\ Running /\ proc[h] = "created"
    /\ \E ok \in BOOLEAN :
          proc' = [proc EXCEPT ![h] = IF ok THEN "running" ELSE "failed"]
    /\ UNCHANGED <<opt, pc, exit, cur, stdout, signaled, pipe, scanSrc,
                   sbuf, spins, file, tailPos, pgid, elapsed, cycle, out,
                   nLines, nInt, nMatch, kills, raced, window, lastSrc>>

\* cmd.Start(): the child runs, or logger.Fatalln; the failure and the
\* exit of logger.Fatalln are one step
Start(h) ==
    /\ Running /\ proc[h] = "created"
    /\ \E ok \in BOOLEAN :
          IF ok
          THEN proc' = [proc EXCEPT ![h] = "running"] /\ UNCHANGED exit
          ELSE /\ Exit(1, "Start", "start")
               /\ proc' = [proc EXCEPT ![h] = "failed"]
    /\ UNCHANGED <<opt, pc, cur, stdout, signaled, pipe, scanSrc,
                   sbuf, spins, file, tailPos, pgid, elapsed, cycle, out,
                   nLines, nInt, nMatch, kills, raced, window, lastSrc>>

\* a watcher that respawns when the current child has exited
Wait_Respawn(h) ==
    /\ Running /\ proc[h] = "zombie"
    /\ IF h = cur /\ cur + 1 \in Procs
       THEN /\ proc' = [proc EXCEPT ![h] = "reaped", ![cur + 1] = "created"]
            /\ cur' = cur + 1
       ELSE /\ proc' = [proc EXCEPT ![h] = "reaped"]
            /\ UNCHANGED cur
    /\ pipe' = [pipe EXCEPT ![h] = <<>>]
    /\ UNCHANGED <<opt, pc, exit, stdout, signaled, scanSrc,
                   sbuf, spins, file, tailPos, pgid, elapsed, cycle, out,
                   nLines, nInt, nMatch, kills, raced, window, lastSrc>>

\* cmd.Wait() returns: the child is reaped and its stdout pipe closed
Wait(h) ==
    /\ Running /\ proc[h] = "zombie"
    /\ proc' = [proc EXCEPT ![h] = "reaped"]
    /\ pipe' = [pipe EXCEPT ![h] = <<>>]
    /\ UNCHANGED <<opt, pc, exit, cur, stdout, signaled, scanSrc,
                   sbuf, spins, file, tailPos, pgid, elapsed, cycle, out,
                   nLines, nInt, nMatch, kills, raced, window, lastSrc>>

\* ------------------------------------------------ the signal goroutine
\* the goroutine reaches <-signalChan
SigWait ==
    /\ Running /\ pc.sig = "init"
    /\ Goto("sig", "wait")
    /\ UNCHANGED <<opt, exit, cur, stdout, proc, signaled, pipe,
                   scanSrc, sbuf, spins, file, tailPos, pgid, elapsed, cycle,
                   out, nLines, nInt, nMatch, kills, raced, window, lastSrc>>

\* a signal goroutine that goes back to wait for the next interrupt
SigExit_Loop ==
    /\ Running /\ pc.sig = "exit"
    /\ Goto("sig", "wait")
    /\ UNCHANGED <<opt, exit, cur, stdout, proc, signaled, pipe,
                   scanSrc, sbuf, spins, file, tailPos, pgid, elapsed, cycle,
                   out, nLines, nInt, nMatch, kills, raced, window, lastSrc>>

\* os.Exit(0) after kel.kill()
SigExit ==
    /\ Running /\ pc.sig = "exit"
    /\ Exit(0, "shutdown", "sig")
    /\ UNCHANGED <<opt, pc, cur, stdout, proc, signaled, pipe,
                   scanSrc, sbuf, spins, file, tailPos, pgid, elapsed, cycle,
                   out, nLines, nInt, nMatch, kills, raced, window, lastSrc>>

\* ------------------------------------------------------- environment
\* an interrupt; signalChan is unbuffered, so it is received only by a
\* goroutine that is waiting on the channel and dropped otherwise
Interrupt ==
    /\ Running /\ pc.sig # "none"
    /\ nInt < MaxInterrupts
    /\ nInt' = nInt + 1
    /\ IF pc.sig = "wait"
       THEN Goto("sig", "getpgid") /\ raced' = InRespawn
       ELSE UNCHANGED <<pc, raced>>
    /\ UNCHANGED <<opt, exit, cur, stdout, proc, signaled, pipe,
                   scanSrc, sbuf, spins, file, tailPos, pgid, elapsed, cycle,
                   out, nLines, nMatch, kills, window, lastSrc>>

\* the child process exits, by itself or because of a signal
ChildExit(h) ==
    /\ Running /\ proc[h] = "running"
    /\ proc' = [proc EXCEPT ![h] = "zombie"]
    /\ UNCHANGED <<opt, pc, exit, cur, stdout, signaled, pipe,
                   scanSrc, sbuf, spins, file, tailPos, pgid, elapsed, cycle,
                   out, nLines, nInt, nMatch, kills, raced, window, lastSrc>>

\* a running child writes a line to its stdout pipe (stdout mode)
ChildWrite(h, line) ==
    /\ Running /\ opt.LogPath = "" /\ proc[h] = "running"
    /\ nLines < MaxLines
    /\ nLines' = nLines + 1
    /\ pipe' = [pipe EXCEPT ![h] = Append(@, line)]
    /\ UNCHANGED <<opt, pc, exit, cur, stdout, proc, signaled,
                   scanSrc, sbuf, spins, file, tailPos, pgid, elapsed, cycle,
                   out, nInt, nMatch, kills, raced, window, lastSrc>>

\* a line is appended to the log file (log mode)
LogAppend(line) ==
    /\ Running /\ opt.LogPath # ""
    /\ nLines < MaxLines
    /\ nLines' = nLines + 1
    /\ file' = Append(file, line)
    /\ UNCHANGED <<opt, pc, exit, cur, stdout, proc, signaled, pipe,
                   scanSrc, sbuf, spins, tailPos, pgid, elapsed, cycle, out,
                   nInt, nMatch, kills, raced, window, lastSrc>>

\* a second of the cooldown passes
Tick ==
    /\ Running /\ pc.main = "sleep"
    /\ elapsed < opt.Delay
    /\ elapsed' = elapsed + 1
    /\ UNCHANGED <<opt, pc, exit, cur, stdout, proc, signaled, pipe,
                   scanSrc, sbuf, spins, file, tailPos, pgid, cycle, out,
                   nLines, nInt, nMatch, kills, raced, window, lastSrc>>

Next ==
    \/ Parse
    \/ New
    \/ Notify
    \/ Monitor
    \/ monitorLog
    \/ NewScanner
    \/ ScanLine
    \/ ScanEnd
    \/ Sleep
    \/ \E g \in Goroutines : Getpgid(g)
    \/ \E g \in Goroutines : Kill(g)
    \/ Respawn
    \/ \E h \in Procs : Start(h)
    \/ \E h \in Procs : Wait(h)
    \/ SigWait
    \/ SigExit
    \/ Interrupt
    \/ \E h \in Procs : ChildExit(h)
    \/ \E h \in Procs, line \in Lines : ChildWrite(h, line)
    \/ \E line \in Lines : LogAppend(line)
    \/ Tick

Spec == Init /\ [][Next]_vars

TypeOK ==
    /\ pc.main \in {"parse", "New", "signal", "Monitor", "read", "newScanner",
                    "scan", "sleep", "getpgid", "kill", "spawn"}
    /\ pc.sig \in {"none", "init", "wait", "getpgid", "kill", "exit"}
    /\ cur \in 0..(MaxLines + 1)
    /\ nMatch <= MaxLines

\* ================================================================ claims
IsPrefix(s, t) == Len(s) <= Len(t) /\ \A i \in 1..Len(s) : s[i] = t[i]

RespawnEvents == <<"FAIL", "Waiting", "elapsed", "terminate", "spawn">>

\* main is between two lines of the line source
BetweenLines == pc.main \in {"read", "scan", "newScanner"}

\* C1: every matching line is followed by exactly one terminate and exactly
\* one spawn before the next line is classified: between lines the kills
\* and respawns of main equal the matches, and main never gives a respawn
\* up inside kill().
C1_RespawnExactlyOnce ==
    /\ BetweenLines => (kills.main = nMatch /\ cur = nMatch + 1)
    /\ ~(exit.by = "main" /\ exit.cause \in {"Getpgid", "nilProcess"})

\* C2: as long as no line has matched and no interrupt was delivered,
\* kill() and spawn() are not invoked after New(): the first handle stays
\* the current one.
C2_NoMatchNoRespawn ==
    (nMatch = 0 /\ nInt = 0 /\ pc.main \notin {"parse", "New"} /\ cur # 0)
        => /\ cur = 1
           /\ kills = [g \in Goroutines |-> 0]
           /\ ~InRespawn
           /\ pc.sig \in {"none", "init", "wait"}
           /\ exit.cause \notin {"Getpgid", "nilProcess"}

\* lines were classified, none matched, the child exited by itself and was
\* reaped, and the first handle is still current
C2_Witness ==
    /\ nMatch = 0 /\ nInt = 0
    /\ Len(out) >= 1
    /\ proc[1] = "reaped"
    /\ cur = 1
    /\ BetweenLines

\* C3: when the interrupt is received while main is in a respawn and the
\* program exits through the shutdown path, every child running at the
\* exit has received exactly one terminate signal.
C3_ShutdownRace ==
    (exit.cause = "shutdown" /\ raced)
        => \A h \in Procs : proc[h] = "running" => signaled[h] = 1

\* C4: a shutdown request is an interrupt the signal goroutine receives.
\* The shutdown path sends at most one terminate, to the handle that was
\* current when its kill() looked it up, after which its only step is the
\* exit; an interrupt that comes after the first was received changes
\* nothing.
C4_ShutdownOnce ==
    [][/\ kills'.sig <= 1
       /\ (Getpgid("sig") /\ pc'.sig = "kill" => pgid'.sig = cur)
       /\ (kills'.sig = 1 => pc'.sig = "exit" /\ pgid'.sig \in 1..cur')
       /\ (pc.sig = "exit" /\ pc'.sig # "exit" => FALSE)
       /\ (exit'.by = "sig" /\ exit'.code = 0 => kills'.sig = 1)
       /\ (nInt' # nInt /\ pc.sig # "wait"
             => UNCHANGED <<opt, pc, exit, cur, stdout, proc, signaled, pipe,
                            scanSrc, sbuf, spins, file, tailPos, pgid,
                            elapsed, cycle, out, nLines, nMatch, kills,
                            raced, window, lastSrc>>)]_vars

\* the interrupt arrived in the cooldown, a second one followed, and the
\* program exited through the shutdown path after one terminate
C4_Witness ==
    /\ exit.cause = "shutdown"
    /\ kills.sig = 1
    /\ nInt = 2
    /\ raced
    /\ pc.main = "sleep" /\ elapsed < opt.Delay

\* C5: the handles are created one after the other, and every handle that
\* was replaced has been sent a terminate or was already reaped; at most
\* one child that is not reaped has never been signaled.
C5_TerminateBeforeReplace ==
    /\ \A h \in Procs : h > cur => proc[h] = "none"
    /\ \A h \in Procs : h < cur => (signaled[h] >= 1 \/ proc[h] = "reaped")
    /\ Cardinality({h \in Procs : proc[h] \in {"created", "running", "zombie"}
                                  /\ signaled[h] = 0}) <= 1

\* a respawn has happened while the old child, signaled, still runs next
\* to the new one
C5_Witness ==
    /\ cur = 2
    /\ proc[1] = "running" /\ signaled[1] = 1
    /\ proc[2] = "running" /\ signaled[2] = 0

\* C6: when the kill() of a respawn finds the child reaped, main goes on
\* to spawn a replacement and the supervisor keeps running.
C6_LookupFailureNotFatal ==
    [][(Getpgid("main") /\ proc[cur] = "reaped")
          => (exit'.code = -1 /\ pc'.main = "spawn")]_vars

C8_NoUnboundedSpin == spins < MaxSpin

\* C9: in stdout mode every line that is classified was read from the
\* stream of the current process.
C9_LinesFromCurrent == [][ScanLine => scanSrc = cur]_vars

\* C10: the supervisor exits with code 0 after a shutdown signal, or with
\* a code that is not 0 after a fatal startup error (arguments, pattern,
\* launch of the command, log file), and in no other way.
C10_ExitPaths ==
    ~Running =>
        \/ exit.code = 0 /\ exit.cause = "shutdown"
        \/ exit.code # 0 /\ exit.cause \in {"flags", "MustCompile", "Start",
                                            "StdoutPipe", "TailFile"}

\* C11: a launch that fails ends the supervisor with an error in the same
\* step: the failed handle is the current one, was never signaled, and no
\* step (spawn, classification, terminate) is taken after the failure.
C11_LaunchFailureFatal ==
    [][/\ \A h \in Procs : proc[h] # "failed"
       /\ \A h \in Procs :
             proc'[h] = "failed"
                => /\ exit'.code = 1 /\ exit'.cause = "Start"
                   /\ h = cur' /\ cur' = cur
                   /\ signaled'[h] = 0
                   /\ kills' = kills /\ nMatch' = nMatch /\ out' = out
                   /\ tailPos' = tailPos]_vars

\* the launch of a respawned command failed while a line of the log was
\* still unread
C11_Witness ==
    /\ exit.cause = "Start"
    /\ cur = 2 /\ proc[2] = "failed"
    /\ opt.LogPath # ""
    /\ tailPos >= 0 /\ tailPos < Len(file)

\* C12: with a pattern that does not compile no handle is ever created:
\* the program ends in New() before spawn().
C12_BadPatternNoSpawn ==
    ~Compiles(opt.Regex)
        => /\ cur = 0 /\ stdout = 0
           /\ \A h \in Procs : proc[h] = "none"
           /\ pc.main \in {"parse", "New"}
           /\ exit.cause \in {"none", "flags", "MustCompile"}

\* the program has ended on the pattern
C12_Witness == exit.cause = "MustCompile" /\ exit.code = 2 /\ cur = 0

\* C13: kill() looks up the handle that is current at that moment, and the
\* signal it then sends has a negative target, the negated process id of
\* that child (the leader of its own group), which is not the supervisor's
\* group; the signal is delivered to that handle's group only.
C13_KillWholeGroup ==
    [][\A g \in Goroutines :
          /\ (Getpgid(g) /\ pc'[g] = "kill") => pgid'[g] = cur
          /\ pc'[g] = "kill"
                => /\ pgid'[g] \in 1..cur'
                   /\ KillArg(pgid'[g]) < 0
                   /\ 0 - KillArg(pgid'[g]) = Pid(pgid'[g])
                   /\ 0 - KillArg(pgid'[g]) # SupervisorPgid
          /\ Kill(g) => \A k \in Procs :
                           k # pgid[g] => signaled'[k] = signaled[k]]_vars

\* main has signaled the first child and the shutdown path the second
C13_Witness ==
    /\ kills.main = 1 /\ kills.sig = 1
    /\ signaled[1] = 1 /\ signaled[2] = 1

\* C14: in log mode a matching line that was appended between a match and
\* the spawn that follows it is not classified afterwards.
C14_NoBacklog ==
    [][monitorLog
          => ~(/\ window.from < tailPos' /\ tailPos' <= window.to
               /\ MatchString(opt.Regex, file[tailPos']))]_vars

\* C15: the exit of a child and its observation by cmd.Wait() leave the
\* current handle, the positions of main and of the signal goroutine, the
\* signals sent and the line source as they are.
C15_ExitNotControl ==
    [][\A h \in Procs :
          (Wait(h) \/ ChildExit(h))
             => UNCHANGED <<cur, stdout, pc, exit, signaled, kills, pgid,
                            scanSrc, nMatch, cycle, tailPos>>]_vars

\* the only child has exited and was reaped, nothing was read, killed or
\* spawned, and the supervisor runs on
C15_Witness ==
    /\ Running
    /\ cur = 1 /\ proc[1] = "reaped"
    /\ nLines = 0 /\ nMatch = 0
    /\ kills = [g \in Goroutines |-> 0]
    /\ pc.main \in {"read", "scan"}

\* the line the next step of the line loop classifies
ClassifiedLine ==
    IF opt.LogPath # "" THEN file[tailPos + 1]
    ELSE IF sbuf # <<>> THEN Head(sbuf) ELSE Head(pipe[scanSrc])

\* C16: a line that does not match is printed exactly when verbose is set,
\* and its classification changes nothing else of the supervisor.
C16_NoMatchFrame ==
    [][((monitorLog \/ ScanLine) /\ ~MatchString(opt.Regex, ClassifiedLine))
          => /\ out' = IF opt.Verbose THEN Append(out, ClassifiedLine)
                                      ELSE out
             /\ UNCHANGED <<cur, stdout, scanSrc, proc, signaled, kills, pc,
                            pgid, elapsed, cycle, exit, nMatch>>]_vars

\* a line that does not match was printed in verbose mode, and one was
\* passed over in silence
C16_Witness ==
    \/ opt.Verbose /\ out = <<"info">> /\ tailPos = Len(file) /\ nLines = 1
    \/ ~opt.Verbose /\ out = <<>> /\ tailPos = Len(file) /\ nLines = 1
                    /\ file[Len(file)] = "info"

\* C17: the tail starts at the end of the file as it is when it is opened
\* and then moves one line at a time, only when monitorLog classifies that
\* line; nothing else (a respawn included) moves it, and it never points
\* into the content that was in the file before the start.
C17_TailFromEnd ==
    [][/\ (tailPos = -1 /\ tailPos' # -1) => tailPos' = Len(file)
       /\ (tailPos # -1 /\ tailPos' # tailPos)
             => (monitorLog /\ tailPos' = tailPos + 1)
       /\ (opt.LogPath # "" /\ (nMatch' # nMatch \/ out' # out))
             => (monitorLog /\ tailPos >= Len(file) - nLines)
       /\ tailPos' # -1
             => (Len(file') - nLines' <= tailPos' /\ tailPos' <= Len(file'))]_vars

\* a file with a matching line in it before the start, two lines appended,
\* one respawn, and the tail at the end of the file
C17_Witness ==
    /\ opt.LogPath # ""
    /\ Len(file) - nLines = 1
    /\ nLines = 2 /\ nMatch = 1
    /\ cur = 2
    /\ tailPos = Len(file)
    /\ pc.main = "read"

\* C18: whenever kill() reads k.cmd.Process, cmd.Start() of the current
\* handle has returned.
C18_KillAfterLaunch ==
    [][\A g \in Goroutines :
          Getpgid(g) => proc[cur] \notin {"created", "failed"}]_vars

\* C19: when the supervisor has exited, every child that still runs has
\* been sent a terminate signal.
C19_NoLeak ==
    ~Running => \A h \in Procs : proc[h] = "running" => signaled[h] >= 1

====
